---- MODULE Spec2Model ----
(***************************************************************************)
(* Mortgage repayment calculator: the form component ContainerLeft.vue     *)
(* (amount normaliser, calculate, clearAll) and the result it hands, via   *)
(* the parent, to ContainerRight.vue.                                      *)
(*                                                                         *)
(* Texts are sequences of one-character strings.  JavaScript numbers are   *)
(* modelled as exact rationals [k |-> "num", n, d] (d > 0, lowest terms)   *)
(* together with the special values NaN and +/-Infinity; null and the      *)
(* empty string a cleared number field holds are values of their own.      *)
(***************************************************************************)
EXTENDS Integers, Sequences, FiniteSets, TLC

(***************************************************************************)
(* Bounds of the model.                                                    *)
(***************************************************************************)
\* longest amount text the normaliser is run on in SpecNormalize
MaxLen == 4

(***************************************************************************)
(* Values: number | null | '' .                                            *)
(***************************************************************************)
Null  == [k |-> "null",  n |-> 0, d |-> 1]
Empty == [k |-> "empty", n |-> 0, d |-> 1]
NaN   == [k |-> "nan",   n |-> 0, d |-> 1]
Inf(s) == [k |-> "inf", n |-> s, d |-> 1]

Abs(i) == IF i < 0 THEN -i ELSE i
Sgn(i) == IF i < 0 THEN -1 ELSE IF i = 0 THEN 0 ELSE 1

RECURSIVE GCD(_, _)
GCD(a, b) == IF b = 0 THEN a ELSE GCD(b, a % b)

\* the rational n/d (d # 0) in lowest terms with a positive denominator
Num(n, d) ==
  LET g == GCD(Abs(n), Abs(d))
      s == IF d < 0 THEN -1 ELSE 1
  IN  [k |-> "num", n |-> (s * n) \div g, d |-> Abs(d) \div g]

IntNum(i) == Num(i, 1)

IsNum(v) == v.k = "num"
IsZero(v) == v.k = "num" /\ v.n = 0
SignOf(v) == Sgn(v.n)

\* JavaScript ToNumber on a field value: null and '' count as 0
ToNumber(v) == IF v.k \in {"null", "empty"} THEN IntNum(0) ELSE v

\* JavaScript truthiness of a field value: null, '', NaN and 0 are falsy
Truthy(v) == CASE v.k = "num" -> v.n # 0
               [] v.k = "inf" -> TRUE
               [] OTHER       -> FALSE

(***************************************************************************)
(* IEEE-754 arithmetic on the modelled numbers (exact on finite values).   *)
(***************************************************************************)
Mul(x, y) ==
  LET a == ToNumber(x)
      b == ToNumber(y)
  IN  CASE a.k = "nan" \/ b.k = "nan" -> NaN
        [] a.k = "inf" \/ b.k = "inf" ->
             IF IsZero(a) \/ IsZero(b) THEN NaN ELSE Inf(SignOf(a) * SignOf(b))
        [] OTHER ->
             LET g1 == GCD(Abs(a.n), b.d)
                 g2 == GCD(Abs(b.n), a.d)
             IN  Num((a.n \div g1) * (b.n \div g2), (a.d \div g2) * (b.d \div g1))

Div(x, y) ==
  LET a == ToNumber(x)
      b == ToNumber(y)
  IN  CASE a.k = "nan" \/ b.k = "nan" -> NaN
        [] a.k = "inf" ->
             IF b.k = "inf" THEN NaN
             ELSE Inf(SignOf(a) * (IF SignOf(b) < 0 THEN -1 ELSE 1))
        [] b.k = "inf" -> IntNum(0)
        [] IsZero(b) -> IF IsZero(a) THEN NaN ELSE Inf(SignOf(a))
        [] OTHER -> Mul(a, Num(b.d, b.n))

Add(x, y) ==
  LET a == ToNumber(x)
      b == ToNumber(y)
  IN  CASE a.k = "nan" \/ b.k = "nan" -> NaN
        [] a.k = "inf" /\ b.k = "inf" -> IF a.n = b.n THEN a ELSE NaN
        [] a.k = "inf" -> a
        [] b.k = "inf" -> b
        [] OTHER ->
             LET g == GCD(a.d, b.d)
             IN  Num(a.n * (b.d \div g) + b.n * (a.d \div g), (a.d \div g) * b.d)

Neg(x) ==
  LET a == ToNumber(x)
  IN  IF a.k = "nan" THEN NaN ELSE [a EXCEPT !.n = -a.n]

Sub(x, y) == Add(x, Neg(y))

\* Math.pow(base, exponent) for an integral exponent
Pow(x, y) ==
  LET a == ToNumber(x)
      e == ToNumber(y)
  IN  CASE IsZero(e) -> IntNum(1)
        [] a.k = "nan" \/ e.k = "nan" -> NaN
        [] a.k = "inf" /\ IsNum(e) /\ e.d = 1 ->
             IF e.n < 0 THEN IntNum(0)
             ELSE Inf(IF a.n < 0 /\ e.n % 2 = 1 THEN -1 ELSE 1)
        [] IsZero(a) /\ IsNum(e) /\ e.d = 1 ->
             IF e.n < 0 THEN Inf(1) ELSE IntNum(0)
        [] IsNum(a) /\ IsNum(e) /\ e.d = 1 ->
             IF e.n > 0 THEN Num(a.n ^ e.n, a.d ^ e.n)
             ELSE Num(a.d ^ (-e.n), a.n ^ (-e.n))

(***************************************************************************)
(* Texts.                                                                  *)
(***************************************************************************)
Digits == {"0", "1", "2", "3", "4", "5", "6", "7", "8", "9"}
Whitespace == {" "}

DigitVal(c) ==
  CASE c = "0" -> 0 [] c = "1" -> 1 [] c = "2" -> 2 [] c = "3" -> 3
    [] c = "4" -> 4 [] c = "5" -> 5 [] c = "6" -> 6 [] c = "7" -> 7
    [] c = "8" -> 8 [] c = "9" -> 9

\* the characters a text is made of: digits, the two separators, whitespace
\* and "a" standing for every other character
Chars == Digits \cup {".", ","} \cup Whitespace \cup {"a"}

\* number of leading characters of s that belong to the set S
RECURSIVE PrefixLen(_, _)
PrefixLen(s, S) ==
  IF s = <<>> \/ Head(s) \notin S THEN 0 ELSE 1 + PrefixLen(Tail(s), S)

Drop(s, i) == SubSeq(s, i + 1, Len(s))
Take(s, i) == SubSeq(s, 1, i)

\* value of a digit string read in base ten (0 for the empty string)
RECURSIVE DigitsValue(_)
DigitsValue(s) ==
  IF s = <<>> THEN 0 ELSE 10 * DigitsValue(Take(s, Len(s) - 1)) + DigitVal(s[Len(s)])

\* JavaScript parseFloat: skips leading whitespace, reads the longest prefix
\* digits [ "." digits ] holding at least one digit, NaN if there is none
parseFloat(str) ==
  LET s  == Drop(str, PrefixLen(str, Whitespace))
      il == PrefixLen(s, Digits)
      r  == Drop(s, il)
      hasDot == r # <<>> /\ Head(r) = "."
      fl == IF hasDot THEN PrefixLen(Tail(r), Digits) ELSE 0
      ip == Take(s, il)
      fp == IF hasDot THEN Take(Tail(r), fl) ELSE <<>>
  IN  IF il = 0 /\ fl = 0 THEN NaN
      ELSE Num(DigitsValue(ip) * (10 ^ fl) + DigitsValue(fp), 10 ^ fl)

\* String.prototype.split(sep) for a one-character separator
RECURSIVE Split(_, _)
Split(s, sep) ==
  LET i == PrefixLen(s, Chars \ {sep})
  IN  IF i = Len(s) THEN <<s>>
      ELSE <<Take(s, i)>> \o Split(Drop(s, i + 1), sep)


\* the text with every character outside S removed (replace(/[S]/g, ''))
Keep(s, S) == SelectSeq(s, LAMBDA c : c \in S)

\* all texts over the character set S of length at most n
TextsUpTo(S, n) == UNION {[1..l -> S] : l \in 0..n}

(***************************************************************************)
(* ContainerLeft.vue: the form's state.                                    *)
(***************************************************************************)
VARIABLES
  amountInput,      \* ref(''): the amount field's text
  amount,           \* ref<number | null>(null): the principal
  term,             \* ref<number | null>(INITIAL_TERM)
  rate,             \* ref<number | null>(INITIAL_RATE)
  type,             \* ref<LoanType>(INITIAL_TYPE)
  showAmountError,  \* ref(false): the invalid-input flag
  watchedValue,     \* the value of amountInput the watcher last saw (its oldValue)
  innerWidth,       \* window.innerWidth as the watcher's latest run read it
  emitted,          \* the events the most recent user action emitted
  result,           \* ContainerRight's props.result, as the parent passes it
  lastUser,         \* history: the kind of the most recent user action
  calcSinceClear,   \* history: a submit emitted a result and no clear followed
  amountFrom        \* history: what last wrote amount ("init", "watch", "clear")

vars == <<amountInput, amount, term, rate, type, showAmountError, watchedValue,
          innerWidth, emitted, result, lastUser, calcSinceClear, amountFrom>>

INITIAL_TERM == Null
INITIAL_RATE == Null
INITIAL_TYPE == "repayment"
LoanType == {"repayment", "interest-only"}

\* window widths on both sides of shouldShowError's threshold
WindowWidths == {1010, 1011}

\* slip: only leading and trailing whitespace is removed (trim())
sanitizeInputTrimOnly(input) ==
  LET lead  == PrefixLen(input, Whitespace)
      rest  == Drop(input, lead)
      trail == CHOOSE j \in 0..Len(rest) :
                 /\ \A i \in (Len(rest) - j + 1)..Len(rest) : rest[i] \in Whitespace
                 /\ (j < Len(rest) => rest[Len(rest) - j] \notin Whitespace)
  IN  Take(rest, Len(rest) - trail)

sanitizeInput(input) == Keep(input, Chars \ Whitespace)

\* slip: the pattern is anchored, only the first character is tested
hasInvalidFirstCharacter(input) ==
  input # <<>> /\ input[1] \notin Digits \cup {".", ","}

hasInvalidCharacters(input) == \E i \in 1..Len(input) : input[i] \notin Digits \cup {".", ","}

shouldShowError(width) == width > 1010

\* slip: the integer part keeps its thousands separators
parseCurrencyKeepsSeparators(input) ==
  LET cleanDecimal == Keep(Keep(input, Chars \ {","}), Chars \ {"."})
      parts   == Split(input, ".")
      integer == parts[1]
      hasDecimal == Len(parts) >= 2
      decimal == IF hasDecimal THEN parts[2] ELSE <<>>
  IN  IF hasDecimal /\ decimal # <<>>
      THEN parseFloat(integer \o <<".">> \o decimal)
      ELSE parseFloat(cleanDecimal)

parseCurrency(input) ==
  LET cleanDecimal == Keep(Keep(input, Chars \ {","}), Chars \ {"."})
      parts   == Split(input, ".")
      integer == parts[1]
      \* the second element of the split, undefined when there is none
      hasDecimal == Len(parts) >= 2
      decimal == IF hasDecimal THEN parts[2] ELSE <<>>
  IN  IF hasDecimal /\ decimal # <<>>
      THEN parseFloat(Keep(integer, Digits) \o <<".">> \o decimal)
      ELSE parseFloat(cleanDecimal)

\* slip: the invalid branch raises the flag but leaves the old principal
watchAmountInputKeepsAmount(newValue, width) ==
  LET cleanedValue == sanitizeInput(newValue)
  IN  IF hasInvalidCharacters(cleanedValue)
      THEN [showAmountError |-> shouldShowError(width), amount |-> amount]
      ELSE [showAmountError |-> FALSE, amount |-> parseCurrency(cleanedValue)]

\* the callback of watch(amountInput): what it assigns, given the new text and
\* the window width shouldShowError reads
watchAmountInput(newValue, width) ==
  LET cleanedValue == sanitizeInput(newValue)
  IN  IF hasInvalidCharacters(cleanedValue)
      THEN [showAmountError |-> shouldShowError(width), amount |-> Null]
      ELSE [showAmountError |-> FALSE, amount |-> parseCurrency(cleanedValue)]

\* slip: the growth factor instead of the discount factor
calculateRepaymentGrowth(principal, monthlyRate, months) ==
  LET discountFactor == Pow(Add(IntNum(1), monthlyRate), months)
  IN  Div(Mul(principal, monthlyRate), Sub(IntNum(1), discountFactor))

calculateRepayment(principal, monthlyRate, months) ==
  LET discountFactor == Pow(Add(IntNum(1), monthlyRate), Neg(months))
  IN  Div(Mul(principal, monthlyRate), Sub(IntNum(1), discountFactor))

\* slip: a year's interest instead of a month's
calculateInterestOnlyAnnual(principal, monthlyRate) ==
  Mul(principal, Mul(monthlyRate, IntNum(12)))

calculateInterestOnly(principal, monthlyRate) == Mul(principal, monthlyRate)

CalculatedEvent(monthly, total) == [e |-> "calculated", monthly |-> monthly, total |-> total]
ClearEvent == [e |-> "clear", monthly |-> Null, total |-> Null]

\* slip: && for ||, the early return is taken only when all three are missing
calculateReturnsWhenAllMissing(a, t, r, ty) ==
  IF ~Truthy(a) /\ ~Truthy(t) /\ ~Truthy(r) THEN <<>>
  ELSE LET principal   == a
           months      == Mul(t, IntNum(12))
           monthlyRate == Div(Div(r, IntNum(100)), IntNum(12))
           monthlyPayment ==
             IF ty = "repayment"
             THEN calculateRepayment(principal, monthlyRate, months)
             ELSE calculateInterestOnly(principal, monthlyRate)
       IN  <<CalculatedEvent(monthlyPayment, Mul(monthlyPayment, months))>>

\* calculate(): the events it emits for the form values a, t, r, ty
calculate(a, t, r, ty) ==
  IF ~Truthy(a) \/ ~Truthy(t) \/ ~Truthy(r) THEN <<>>
  ELSE LET principal   == a
           months      == Mul(t, IntNum(12))
           monthlyRate == Div(Div(r, IntNum(100)), IntNum(12))
           monthlyPayment ==
             IF ty = "repayment"
             THEN calculateRepayment(principal, monthlyRate, months)
             ELSE calculateInterestOnly(principal, monthlyRate)
       IN  <<CalculatedEvent(monthlyPayment, Mul(monthlyPayment, months))>>

\* slip: clearAll forgets emit('clear')
clearAllWithoutEmit ==
  [amountInput |-> <<>>, amount |-> Null, term |-> INITIAL_TERM,
   rate |-> INITIAL_RATE, type |-> INITIAL_TYPE, emitted |-> <<>>]

\* slip: clearAll forgets to reset the term
clearAllKeepsTerm ==
  [amountInput |-> <<>>, amount |-> Null, term |-> term,
   rate |-> INITIAL_RATE, type |-> INITIAL_TYPE, emitted |-> <<ClearEvent>>]

\* clearAll(): the values it assigns and the events it emits
clearAll ==
  [amountInput |-> <<>>, amount |-> Null, term |-> INITIAL_TERM,
   rate |-> INITIAL_RATE, type |-> INITIAL_TYPE, emitted |-> <<ClearEvent>>]

(***************************************************************************)
(* The parent component: it keeps the payload of the last 'calculated'     *)
(* event and drops it on 'clear'; ContainerRight shows props.result.       *)
(***************************************************************************)
NoResult == [present |-> FALSE, monthly |-> Null, total |-> Null]

ParentOnEvent(res, ev) ==
  IF ev.e = "calculated"
  THEN [present |-> TRUE, monthly |-> ev.monthly, total |-> ev.total]
  ELSE NoResult

RECURSIVE ParentOnEvents(_, _)
ParentOnEvents(res, evs) ==
  IF evs = <<>> THEN res ELSE ParentOnEvents(ParentOnEvent(res, Head(evs)), Tail(evs))

(***************************************************************************)
(* Inputs of the model.                                                    *)
(***************************************************************************)
\* texts typed into the amount field in Spec
FormTexts ==
  { <<>>, <<"1">>, <<"0">>, <<"1", ",", "2">>, <<"1", ".", "5">>, <<" ", "1", "a">> }

\* values typed into the term field, in the order they are tried (a cleared
\* number field holds '')
TermInputs == <<IntNum(1), IntNum(2), IntNum(0), IntNum(-1), Empty>>

\* values typed into the rate field
RateInputs == {IntNum(0), IntNum(600), IntNum(1200)}

\* (1 + r/100/12)^(12 t) is computed exactly only while it fits the model's
\* integers: terms of more than a year go with the rate whose monthly factor is 2
ExactPow(t, r) ==
  LET base == Add(IntNum(1), Div(Div(r, IntNum(100)), IntNum(12)))
  IN  ~Truthy(t) \/ ~Truthy(r) \/ Abs(t.n) <= 1 \/ (base.n <= 2 /\ base.d <= 2)

\* the watcher job is queued: amountInput differs from the value it last saw
watcherPending == amountInput # watchedValue

(***************************************************************************)
(* Init and the actions.                                                   *)
(***************************************************************************)
Init ==
  /\ amountInput = <<>>
  /\ amount = Null
  /\ term = INITIAL_TERM
  /\ rate = INITIAL_RATE
  /\ type = INITIAL_TYPE
  /\ showAmountError = FALSE
  /\ watchedValue = <<>>
  /\ innerWidth \in WindowWidths
  /\ emitted = <<>>
  /\ result = NoResult
  /\ lastUser = "none"
  /\ calcSinceClear = FALSE
  /\ amountFrom = "init"

\* v-model="amountInput": the user changes the amount text; the watcher is queued
EditAmount(text) ==
  /\ ~watcherPending
  /\ text # amountInput
  /\ amountInput' = text
  /\ emitted' = <<>>
  /\ lastUser' = "edit"
  /\ UNCHANGED <<amount, term, rate, type, showAmountError, watchedValue, innerWidth,
                 result, calcSinceClear, amountFrom>>

\* v-model="term"
EditTerm(v) ==
  /\ ~watcherPending
  /\ v # term
  /\ ExactPow(v, rate)
  /\ term' = v
  /\ emitted' = <<>>
  /\ lastUser' = "edit"
  /\ UNCHANGED <<amountInput, amount, rate, type, showAmountError, watchedValue,
                 innerWidth, result, calcSinceClear, amountFrom>>

\* v-model="rate"
EditRate(v) ==
  /\ ~watcherPending
  /\ v # rate
  /\ ExactPow(term, v)
  /\ rate' = v
  /\ emitted' = <<>>
  /\ lastUser' = "edit"
  /\ UNCHANGED <<amountInput, amount, term, type, showAmountError, watchedValue,
                 innerWidth, result, calcSinceClear, amountFrom>>

\* v-model="type"
EditType(ty) ==
  /\ ~watcherPending
  /\ ty # type
  /\ type' = ty
  /\ emitted' = <<>>
  /\ lastUser' = "edit"
  /\ UNCHANGED <<amountInput, amount, term, rate, showAmountError, watchedValue,
                 innerWidth, result, calcSinceClear, amountFrom>>

\* the queued watcher job runs, before the next user event is handled
RunWatcher ==
  /\ watcherPending
  /\ \E width \in WindowWidths :
       LET w == watchAmountInput(amountInput, width)
       IN  /\ innerWidth' = width
           /\ showAmountError' = w.showAmountError
           /\ amount' = w.amount
  /\ watchedValue' = amountInput
  /\ amountFrom' = "watch"
  /\ UNCHANGED <<amountInput, term, rate, type, emitted, result, lastUser, calcSinceClear>>

\* @submit.prevent="calculate"
Submit ==
  /\ ~watcherPending
  /\ emitted' = calculate(amount, term, rate, type)
  /\ result' = ParentOnEvents(result, emitted')
  /\ lastUser' = "submit"
  /\ calcSinceClear' = (calcSinceClear \/ emitted' # <<>>)
  /\ UNCHANGED <<amountInput, amount, term, rate, type, showAmountError, watchedValue,
                 innerWidth, amountFrom>>

\* @click="clearAll"
ClearAll ==
  /\ ~watcherPending
  /\ amountInput' = clearAll.amountInput
  /\ amount' = clearAll.amount
  /\ term' = clearAll.term
  /\ rate' = clearAll.rate
  /\ type' = clearAll.type
  /\ emitted' = clearAll.emitted
  /\ result' = ParentOnEvents(result, emitted')
  /\ lastUser' = "clear"
  /\ calcSinceClear' = FALSE
  /\ amountFrom' = "clear"
  /\ UNCHANGED <<showAmountError, watchedValue, innerWidth>>

Next ==
  \/ \E text \in FormTexts : EditAmount(text)
  \/ \E i \in 1..Len(TermInputs) : EditTerm(TermInputs[i])
  \/ \E v \in RateInputs : EditRate(v)
  \/ \E ty \in LoanType : EditType(ty)
  \/ RunWatcher
  \/ Submit
  \/ ClearAll

Spec == Init /\ [][Next]_vars

(***************************************************************************)
(* The normaliser alone: any text up to MaxLen characters is typed into    *)
(* the freshly created form and the watcher runs on it.                    *)
(***************************************************************************)
TextChars == {"0", "1", "2", ".", ",", " ", "a"}
Texts == TextsUpTo(TextChars, MaxLen)

TypeAmount ==
  /\ amountFrom = "init"
  /\ ~watcherPending
  /\ \E text \in Texts : EditAmount(text)

NextNormalize == TypeAmount \/ RunWatcher

SpecNormalize == Init /\ [][NextNormalize]_vars

(***************************************************************************)
(* Vocabulary of the properties.                                           *)
(***************************************************************************)
\* present and strictly positive
Positive(v) == (v.k = "num" /\ v.n > 0) \/ (v.k = "inf" /\ v.n > 0)

\* missing: null, '' or not-a-number
Missing(v) == v.k \in {"null", "empty", "nan"}

\* with whitespace removed the text holds only digits, '.' and ','
OnlyAmountChars(text) ==
  \A i \in 1..Len(text) : text[i] \in Digits \cup {".", ","} \cup Whitespace

CountOf(text, ch) == Cardinality({i \in 1..Len(text) : text[i] = ch})

\* the watcher has run on the current amount text and nothing wrote amount since
Normalized == amountFrom = "watch" /\ ~watcherPending

\* a submit was the most recent user action and it emitted a result
SubmitEmitted == lastUser = "submit" /\ emitted # <<>>

\* the integer a string of digits denotes, read left to right; not-a-number
\* when there is no digit
RECURSIVE Horner(_, _)
Horner(acc, ds) ==
  IF ds = <<>> THEN acc ELSE Horner(10 * acc + DigitVal(Head(ds)), Tail(ds))

IntegerDenoted(text) ==
  LET ds == Keep(text, Digits)
  IN  IF ds = <<>> THEN NaN ELSE IntNum(Horner(0, ds))

\* the number with the digits before the last '.' as integer part and the text
\* after the last '.' as decimal part
LastDot(text) == CHOOSE i \in 1..Len(text) :
                   text[i] = "." /\ \A j \in (i + 1)..Len(text) : text[j] # "."

SplitAtLastDot(text) ==
  LET clean == Keep(text, Chars \ Whitespace)
      i == LastDot(clean)
  IN  parseFloat(Keep(Take(clean, i - 1), Digits) \o <<".">> \o Drop(clean, i))

(***************************************************************************)
(* C1.  A result exists if and only if the most recent user action was a   *)
(* successful calculation (and no clear followed it).                      *)
(***************************************************************************)
C1_ResultIffLastActionCalculated == result.present <=> SubmitEmitted

\* C1 as amended: a result exists if and only if some submit emitted a result
\* and no clear action has occurred since; edits and submits that emit nothing
\* leave it in place.
C1_ResultIffCalculatedSinceClear == result.present <=> calcSinceClear

C1_Witness == result.present /\ lastUser = "edit" /\ ~watcherPending

(***************************************************************************)
(* C2.  A submit emits a result only when principal, rate and term are all *)
(* present and strictly positive.                                          *)
(***************************************************************************)
C2_EmitsOnlyWhenAllPositive ==
  SubmitEmitted => Positive(amount) /\ Positive(term) /\ Positive(rate)

(***************************************************************************)
(* C3.  No invalid amount reaches the calculator: a submit that emitted a  *)
(* result had an amount text of digits, '.', ',' and whitespace only; while*)
(* the invalid-input flag is raised the principal is null and a submit     *)
(* emits nothing; with an invalid text and the watcher run, a submit emits *)
(* nothing.                                                                *)
(***************************************************************************)
C3_NoInvalidAmountReachesCalculator ==
  /\ SubmitEmitted => OnlyAmountChars(amountInput)
  /\ showAmountError => amount = Null /\ calculate(amount, term, rate, type) = <<>>
  /\ (~watcherPending /\ ~OnlyAmountChars(amountInput))
       => calculate(amount, term, rate, type) = <<>>

C3_Witness ==
  /\ ~OnlyAmountChars(amountInput)
  /\ showAmountError
  /\ Positive(term) /\ Positive(rate)
  /\ lastUser = "submit" /\ emitted = <<>>
  /\ result.present

(***************************************************************************)
(* C4.  A submit while principal, term or rate is missing is a no-op: it   *)
(* emits nothing, the shown result stays as it was, no form field and not  *)
(* the error flag changes, and a repeated submit changes nothing at all.   *)
(***************************************************************************)
C4_SubmitWithMissingFieldIsNoOp ==
  [][ (Submit /\ (Missing(amount) \/ Missing(term) \/ Missing(rate)))
        => /\ emitted' = <<>>
           /\ result' = result
           /\ UNCHANGED <<amountInput, amount, term, rate, type, showAmountError>>
           /\ (lastUser = "submit" /\ emitted = <<>> => UNCHANGED vars) ]_vars

C4_Witness ==
  /\ lastUser = "submit" /\ emitted = <<>>
  /\ result.present
  /\ Positive(amount) /\ Missing(term) /\ Positive(rate)

(***************************************************************************)
(* C5.  For every amount text with a character other than digits, '.',    *)
(* ',' and whitespace, the normaliser sets the principal to null and       *)
(* raises the invalid-input flag.                                          *)
(***************************************************************************)
C5_InvalidTextRaisesFlag ==
  (Normalized /\ ~OnlyAmountChars(amountInput))
    => amount = Null /\ showAmountError

\* C5 as amended: the principal is set to null, and the flag is raised exactly
\* when the window is wider than 1010 pixels (it is lowered otherwise).
C5_InvalidTextNullsAmountFlagByWidth ==
  (Normalized /\ ~OnlyAmountChars(amountInput))
    => amount = Null /\ (showAmountError <=> innerWidth > 1010)

C5_Witness ==
  /\ Normalized
  /\ ~OnlyAmountChars(amountInput)
  /\ Keep(amountInput, Digits) # <<>>
  /\ showAmountError
  /\ amount = Null

(***************************************************************************)
(* C6.  For every valid amount text with at least one '.', the principal   *)
(* is the number whose integer part is the digits before the last '.' and  *)
(* whose decimal part is the text after the last '.'.                      *)
(***************************************************************************)
C6_DecimalSplitsAtLastDot ==
  (Normalized /\ OnlyAmountChars(amountInput) /\ CountOf(amountInput, ".") >= 1)
    => amount = SplitAtLastDot(amountInput)

\* C6 as amended: the same, for valid texts that contain exactly one '.'.
C6_DecimalSplitsAtOnlyDot ==
  (Normalized /\ OnlyAmountChars(amountInput) /\ CountOf(amountInput, ".") = 1)
    => amount = SplitAtLastDot(amountInput)

C6_Witness ==
  /\ Normalized
  /\ OnlyAmountChars(amountInput)
  /\ CountOf(amountInput, ".") = 1
  /\ CountOf(amountInput, ",") >= 1
  /\ IsNum(amount) /\ amount.d # 1 /\ amount.n > amount.d

(***************************************************************************)
(* C7.  For every valid amount text without '.', whitespace anywhere in it *)
(* stripped, the principal is the integer its digits denote with every ',' *)
(* removed (not-a-number when it has no digit).                            *)
(***************************************************************************)
C7_IntegerTextParsesToItsDigits ==
  (Normalized /\ OnlyAmountChars(amountInput) /\ CountOf(amountInput, ".") = 0)
    => amount = IntegerDenoted(amountInput)

C7_Witness ==
  /\ Normalized
  /\ OnlyAmountChars(amountInput)
  /\ CountOf(amountInput, ".") = 0
  /\ \E i \in 2..(Len(amountInput) - 1) : amountInput[i] = " "
  /\ IsNum(amount) /\ amount.n >= 10

(***************************************************************************)
(* C8.  Interest-only: for positive principal P, rate r and term t a       *)
(* submit emits exactly one result, monthly = P * (r / 100 / 12), total =  *)
(* monthly * (t * 12); the term does not enter the monthly payment.        *)
(***************************************************************************)
C8_InterestOnlyPayment ==
  (lastUser = "submit" /\ type = "interest-only"
     /\ Positive(amount) /\ Positive(term) /\ Positive(rate))
    => /\ Len(emitted) = 1
       /\ emitted[1].e = "calculated"
       /\ Mul(emitted[1].monthly, IntNum(1200)) = Mul(amount, rate)
       /\ emitted[1].total = Mul(emitted[1].monthly, Mul(IntNum(12), term))

C8_Witness ==
  /\ lastUser = "submit" /\ type = "interest-only"
  /\ amount = Num(3, 2) /\ term = IntNum(2) /\ rate = IntNum(1200)
  /\ Len(emitted) = 1
  /\ emitted[1].monthly = Num(3, 2)
  /\ emitted[1].total = IntNum(36)

(***************************************************************************)
(* C9.  Repayment: for positive principal P, rate r and term t a submit    *)
(* emits exactly one result, monthly = P * m / (1 - (1 + m)^(-n)) with     *)
(* m = r / 100 / 12 and n = t * 12, total = monthly * n.                   *)
(***************************************************************************)
C9_RepaymentPayment ==
  (lastUser = "submit" /\ type = "repayment"
     /\ Positive(amount) /\ Positive(term) /\ Positive(rate))
    => LET m == Div(rate, IntNum(1200))
           n == Mul(IntNum(12), term)
           growth == Pow(Add(IntNum(1), m), n)
       IN  /\ Len(emitted) = 1
           /\ emitted[1].e = "calculated"
           \* monthly * (growth - 1) = P * m * growth
           /\ Mul(emitted[1].monthly, Sub(growth, IntNum(1))) = Mul(Mul(amount, m), growth)
           /\ emitted[1].total = Mul(emitted[1].monthly, n)

C9_Witness ==
  /\ lastUser = "submit" /\ type = "repayment"
  /\ amount = IntNum(1) /\ term = IntNum(1) /\ rate = IntNum(1200)
  /\ Len(emitted) = 1
  /\ emitted[1].monthly = Num(4096, 4095)
  /\ emitted[1].total = Num(16384, 1365)

(***************************************************************************)
(* C10.  After clearAll and the watcher run it schedules the form is in    *)
(* its initial state: empty amount text, no usable principal, term and     *)
(* rate null, type 'repayment', flag down, exactly one 'clear' event and   *)
(* no 'calculated' event emitted, and a submit emits nothing.              *)
(***************************************************************************)
C10_ClearRestoresInitialForm ==
  (lastUser = "clear" /\ ~watcherPending)
    => /\ amountInput = <<>>
       /\ ~Truthy(amount)
       /\ term = Null /\ rate = Null
       /\ type = "repayment"
       /\ ~showAmountError
       /\ emitted = <<ClearEvent>>
       /\ calculate(amount, term, rate, type) = <<>>

C10_Witness ==
  /\ lastUser = "clear" /\ ~watcherPending
  /\ amountFrom = "watch" /\ amount = NaN
  /\ ~result.present

====
